---- MODULE Spec2Model ----
(***************************************************************************)
(* Derived-index maintenance on wc_events / wc_venues.                     *)
(*                                                                         *)
(* The text-search migration installs BEFORE INSERT OR UPDATE OF ... row   *)
(* triggers that keep search_vector derived from title/description         *)
(* (events) and name (venues); the PostGIS migration installs one that     *)
(* keeps wc_venues.location derived from lat/lon.  The state is the heap   *)
(* of rows after both migrations ran on empty tables; the actions are the  *)
(* SQL statements a client can issue (INSERT, UPDATE with any SET list,    *)
(* DELETE), each including every row trigger it fires.                     *)
(*                                                                         *)
(* A nullable SQL value is <<>> (NULL) or <<v>> (the value v).             *)
(***************************************************************************)
EXTENDS Integers, Sequences, FiniteSets, TLC

VARIABLES rows, last, sess, rowlock, qry, proc, schema, mig

vars == <<rows, last, sess, rowlock, qry, proc, schema, mig>>

\* ------------------------------------------------------------------ bounds

\* Longest text (in words) a client writes into title, description or name.
MaxLen == 1

\* SRID of every point the migration builds (WGS84).
SRID == 4326

\* ------------------------------------------------------------ SQL values

NULL == <<>>

Some(v) == <<v>>

IsNull(x) == x = NULL

\* COALESCE(x, d): the first non-null argument.
COALESCE(x, d) == IF IsNull(x) THEN d ELSE x[1]

\* Row identities.  Row triggers are FOR EACH ROW and no statement of the
\* migrations relates two rows, so one row slot shows every per-row case;
\* the slot holds a wc_events row, a wc_venues row, or nothing.
RowIds == {"r1"}

\* Vocabulary of the texts clients write.
Words == {"Concerts", "the", "Night"}

RECURSIVE SeqsUpTo(_, _)
SeqsUpTo(S, n) ==
  IF n = 0 THEN {<<>>}
  ELSE LET shorter == SeqsUpTo(S, n - 1)
       IN  shorter \cup {Append(s, w) : s \in {t \in shorter : Len(t) = n - 1}, w \in S}

\* A text column: NULL, the empty string, or up to MaxLen words.
Texts == {NULL} \cup {Some(t) : t \in SeqsUpTo(Words, MaxLen)}

\* A double precision coordinate: whole degrees, and whether the value has
\* significant digits beyond the 15th (which a cast to numeric rounds away).
Coord(d, f) == [deg |-> d, fine |-> f]

LatVals == {NULL, Some(Coord(39, FALSE)), Some(Coord(45, TRUE)), Some(Coord(91, FALSE))}

LonVals == {NULL, Some(Coord(-86, FALSE)), Some(Coord(181, FALSE))}

StartAts == {NULL, Some(1)}

\* ------------------------------------------------------- full-text search

\* The 'english' configuration: stop words are dropped, the other words are
\* lower-cased and stemmed.
StopWords == {"the"}

Stem(w) ==
  CASE w = "Concerts" -> "concert"
    [] w = "concert"  -> "concert"
    [] w = "Night"    -> "night"
    [] w = "night"    -> "night"
    [] OTHER          -> w

\* to_tsvector('english', text): one entry per word that is no stop word,
\* at the word's position (stop words count), with the default weight D.
to_tsvector(text) ==
  {[lex |-> Stem(text[i]), pos |-> i, w |-> "D"] :
     i \in {j \in 1..Len(text) : text[j] \notin StopWords}}

\* setweight(vector, weight): every position gets the weight.
setweight(v, weight) == {[e EXCEPT !.w = weight] : e \in v}

MaxPos(v) == IF v = {} THEN 0 ELSE CHOOSE p \in {e.pos : e \in v} : \A e \in v : e.pos <= p

\* a || b: b's positions are shifted past the last position of a.
TsConcat(a, b) == a \cup {[e EXCEPT !.pos = e.pos + MaxPos(a)] : e \in b}

\* vector @@ to_tsquery('english', word): the query word is normalised like
\* the text; a stop word gives an empty query, which matches nothing.
TsMatch(sv, q) ==
  /\ ~IsNull(sv)
  /\ q \notin StopWords
  /\ \E e \in sv[1] : e.lex = Stem(q)

\* --------------------------------------------------------------- PostGIS

\* lon::numeric / lat::numeric on a double precision column: 15 significant
\* digits are kept.
ToNumeric(c) == [c EXCEPT !.fine = FALSE]

ST_MakePoint(x, y) == [x |-> x, y |-> y, srid |-> 0]

ST_SetSRID(p, srid) == [p EXCEPT !.srid = srid]

\* geometry::geography.  No range error is raised: PostGIS coerces a
\* longitude outside [-180, 180] and a latitude outside [-90, 90] into range
\* (with a NOTICE) and stores the coerced point.
CoerceLon(c) ==
  IF c.deg > 180 THEN [c EXCEPT !.deg = c.deg - 360]
  ELSE IF c.deg < -180 THEN [c EXCEPT !.deg = c.deg + 360]
  ELSE c

CoerceLat(c) ==
  IF c.deg > 90 THEN [c EXCEPT !.deg = 180 - c.deg]
  ELSE IF c.deg < -90 THEN [c EXCEPT !.deg = -180 - c.deg]
  ELSE c

ToGeography(p) == [p EXCEPT !.x = CoerceLon(p.x), !.y = CoerceLat(p.y)]

\* ST_Distance(a, b) on geography points.  The spheroid distance is stood for
\* by a distance that grows with the coordinate differences.  PostGIS takes
\* two points closer than its tolerance (1e-12 rad) for the same point and
\* rounds the distance to 1e-8 m, so digits beyond the 15th do not show.
Abs(n) == IF n < 0 THEN -n ELSE n

CoordDiff(a, b) == 2 * Abs(a.deg - b.deg)

ST_Distance(a, b) == CoordDiff(a.x, b.x) + CoordDiff(a.y, b.y)

\* v.location IS NOT NULL AND ST_DWithin(v.location, center, radius)
ST_DWithin(location, center, radius) ==
  /\ ~IsNull(location)
  /\ ST_Distance(location[1], center) <= radius

\* ------------------------------------------------------ trigger functions

EventTextDerive(title, description) ==
  TsConcat(setweight(to_tsvector(COALESCE(title, <<>>)), "A"),
           setweight(to_tsvector(COALESCE(description, <<>>)), "B"))

\* Variant: the description is labelled like the title.
update_event_search_vector_one_weight(old, new) ==
  [new EXCEPT !.search_vector =
     Some(TsConcat(setweight(to_tsvector(COALESCE(new.title, <<>>)), "A"),
                   setweight(to_tsvector(COALESCE(new.description, <<>>)), "A")))]

\* NEW.search_vector := setweight(to_tsvector(title), 'A') ||
\*                      setweight(to_tsvector(description), 'B')
update_event_search_vector(old, new) ==
  [new EXCEPT !.search_vector = Some(EventTextDerive(new.title, new.description))]

\* Variant: no COALESCE, so a NULL name gives a NULL vector.
update_venue_search_vector_no_coalesce(old, new) ==
  IF IsNull(new.name)
  THEN [new EXCEPT !.search_vector = NULL]
  ELSE [new EXCEPT !.search_vector = Some(to_tsvector(new.name[1]))]

\* NEW.search_vector := to_tsvector('english', COALESCE(NEW.name, ''))
update_venue_search_vector(old, new) ==
  [new EXCEPT !.search_vector = Some(to_tsvector(COALESCE(new.name, <<>>)))]

\* ST_SetSRID(ST_MakePoint(lon::numeric, lat::numeric), 4326)::geography
VenuePoint(lat, lon) ==
  ToGeography(ST_SetSRID(ST_MakePoint(ToNumeric(lon), ToNumeric(lat)), SRID))

\* Variant: the point is built from the latitude of the old row version.
update_venue_location_old_lat(old, new) ==
  IF ~IsNull(old.lat) /\ ~IsNull(new.lon)
  THEN [new EXCEPT !.location = Some(VenuePoint(old.lat[1], new.lon[1]))]
  ELSE [new EXCEPT !.location = NULL]

\* Variant: no ELSE branch, so a coordinate set to NULL keeps the old point.
update_venue_location_no_else(old, new) ==
  IF ~IsNull(new.lat) /\ ~IsNull(new.lon)
  THEN [new EXCEPT !.location = Some(VenuePoint(new.lat[1], new.lon[1]))]
  ELSE new

\* NEW.location := the point (lon, lat) when both are set, else NULL.
update_venue_location(old, new) ==
  IF ~IsNull(new.lat) /\ ~IsNull(new.lon)
  THEN [new EXCEPT !.location = Some(VenuePoint(new.lat[1], new.lon[1]))]
  ELSE [new EXCEPT !.location = NULL]

\* Variant: UPDATE OF title alone.
trigger_update_event_search_vector_title_only(op, cols) ==
  op = "insert" \/ (op = "update" /\ cols \cap {"title"} # {})

\* Variant: BEFORE INSERT OR UPDATE, without the column list.
trigger_update_venue_location_any_update(op, cols) == op \in {"insert", "update"}

\* Variant: BEFORE INSERT alone.
trigger_update_venue_location_insert_only(op, cols) == op = "insert"

\* BEFORE INSERT OR UPDATE OF <columns>: the trigger fires on every INSERT,
\* and on an UPDATE whose SET list names one of the columns.
trigger_update_event_search_vector(op, cols) ==
  op = "insert" \/ (op = "update" /\ cols \cap {"title", "description"} # {})

trigger_update_venue_search_vector(op, cols) ==
  op = "insert" \/ (op = "update" /\ cols \cap {"name"} # {})

trigger_update_venue_location(op, cols) ==
  op = "insert" \/ (op = "update" /\ cols \cap {"lat", "lon"} # {})

\* The BEFORE row triggers of a table, in name order, applied to NEW.
BeforeRowTriggers(op, cols, old, new) ==
  IF new.tbl = "wc_events"
  THEN IF trigger_update_event_search_vector(op, cols)
       THEN update_event_search_vector(old, new) ELSE new
  ELSE LET n1 == IF trigger_update_venue_location(op, cols)
                 THEN update_venue_location(old, new) ELSE new
       IN  IF trigger_update_venue_search_vector(op, cols)
           THEN update_venue_search_vector(old, n1) ELSE n1

\* ------------------------------------------------------------------ rows

EventCols == {"title", "description", "start_at", "search_vector"}

VenueCols == {"name", "lat", "lon", "location", "search_vector"}

EventSourceCols == {"title", "description", "start_at"}

VenueSourceCols == {"name", "lat", "lon"}

\* Values a client may write directly into a derived column.
DirectVectors == {Some({[lex |-> "sale", pos |-> 1, w |-> "D"]})}

DirectPoints == {Some([x |-> Coord(0, FALSE), y |-> Coord(0, FALSE), srid |-> SRID])}

EventRow(t, d, s, sv) ==
  [tbl |-> "wc_events", title |-> t, description |-> d, start_at |-> s,
   search_vector |-> sv]

VenueRow(n, la, lo, loc, sv) ==
  [tbl |-> "wc_venues", name |-> n, lat |-> la, lon |-> lo, location |-> loc,
   search_vector |-> sv]

\* The SET lists over the columns `allowed`: the named columns with their
\* values (a column that is not named carries NULL and is ignored).
Pick(c, cols, dom) == IF c \in cols THEN dom ELSE {NULL}

EventSets(allowed) ==
  UNION {{[cols |-> cols, vals |-> EventRow(t, d, s, sv)] :
            t \in Pick("title", cols, Texts), d \in Pick("description", cols, Texts),
            s \in Pick("start_at", cols, StartAts),
            sv \in Pick("search_vector", cols, DirectVectors)} :
         cols \in SUBSET allowed \ {{}}}

VenueSets(allowed) ==
  UNION {{[cols |-> cols, vals |-> VenueRow(n, la, lo, loc, sv)] :
            n \in Pick("name", cols, Texts), la \in Pick("lat", cols, LatVals),
            lo \in Pick("lon", cols, LonVals),
            loc \in Pick("location", cols, DirectPoints),
            sv \in Pick("search_vector", cols, DirectVectors)} :
         cols \in SUBSET allowed \ {{}}}

\* UPDATE statements that assign source (and unrelated) columns only, and
\* UPDATE statements that assign derived columns only.
EventSourceSets == EventSets(EventSourceCols)

EventDerivedSets == EventSets(EventCols \ EventSourceCols)

VenueSourceSets == VenueSets(VenueSourceCols)

VenueDerivedSets == VenueSets(VenueCols \ VenueSourceCols)

\* NEW of an UPDATE: OLD with the SET list's columns replaced.
ApplySet(old, set) ==
  [c \in DOMAIN old |-> IF c \in set.cols THEN set.vals[c] ELSE old[c]]

wc_events == {r \in DOMAIN rows : rows[r].tbl = "wc_events"}

wc_venues == {r \in DOMAIN rows : rows[r].tbl = "wc_venues"}

\* --------------------------------------------------------------- actions

\* The schema objects the two migrations install.
TextSearchColumns == {"column wc_events.search_vector", "column wc_venues.search_vector"}

TextSearchObjects ==
  TextSearchColumns \cup
  {"index idx_wc_events_search_vector", "index idx_wc_venues_search_vector",
   "extension pg_trgm", "index idx_wc_events_title_trgm",
   "index idx_wc_events_description_trgm", "index idx_wc_venues_name_trgm",
   "function update_event_search_vector", "function update_venue_search_vector",
   "trigger trigger_update_event_search_vector",
   "trigger trigger_update_venue_search_vector"}

PostgisObjects ==
  {"extension postgis", "column wc_venues.location", "index idx_wc_venues_location",
   "function update_venue_location", "trigger trigger_update_venue_location"}

\* Both migrations have run.
Installed == TextSearchObjects \cup PostgisObjects

\* No migration script is running or has just ended.
NoMigration == [status |-> "none"]

\* No search has run; no helper script has been started.
NoQuery == [status |-> "none"]

NoProcess == [pc |-> "none"]

Sessions == {"s1", "s2"}

Idle == [pc |-> "idle"]

Init ==
  /\ rows = <<>>
  /\ last = [op |-> "none", id |-> "", cols |-> {}]
  /\ sess = [s \in Sessions |-> Idle]
  /\ rowlock = {}
  /\ qry = NoQuery
  /\ proc = NoProcess
  /\ schema = Installed
  /\ mig = NoMigration

\* INSERT INTO wc_events / wc_venues VALUES (...): the row as the client
\* gives it, through the table's BEFORE INSERT row triggers.
Insert(r, new) ==
  /\ r \notin DOMAIN rows
  /\ rows' = [x \in DOMAIN rows \cup {r} |->
                IF x = r THEN BeforeRowTriggers("insert", {}, new, new) ELSE rows[x]]
  /\ last' = [op |-> "insert", id |-> r, cols |-> {}]
  /\ UNCHANGED <<sess, rowlock, qry, proc, schema, mig>>

\* UPDATE <table> SET <set> WHERE id = r.
Update(r, set) ==
  /\ r \in DOMAIN rows
  /\ rows[r].tbl = set.vals.tbl
  /\ rows' = [rows EXCEPT ![r] =
                BeforeRowTriggers("update", set.cols, rows[r], ApplySet(rows[r], set))]
  /\ last' = [op |-> "update", id |-> r, cols |-> set.cols]
  /\ UNCHANGED <<sess, rowlock, qry, proc, schema, mig>>

\* DELETE FROM <table> WHERE id = r (no trigger is declared for DELETE).
Delete(r) ==
  /\ r \in DOMAIN rows
  /\ rows' = [x \in DOMAIN rows \ {r} |-> rows[x]]
  /\ last' = [op |-> "delete", id |-> r, cols |-> {}]
  /\ UNCHANGED <<sess, rowlock, qry, proc, schema, mig>>

InsertEvent ==
  \E r \in RowIds, t \in Texts, d \in Texts, s \in StartAts,
     sv \in {NULL} \cup DirectVectors :
    Insert(r, EventRow(t, d, s, sv))

InsertVenue ==
  \E r \in RowIds, n \in Texts, la \in LatVals, lo \in LonVals,
     loc \in {NULL} \cup DirectPoints, sv \in {NULL} \cup DirectVectors :
    Insert(r, VenueRow(n, la, lo, loc, sv))

UpdateEventSource == \E r \in RowIds, set \in EventSourceSets : Update(r, set)

UpdateVenueSource == \E r \in RowIds, set \in VenueSourceSets : Update(r, set)

UpdateEventDerived == \E r \in RowIds, set \in EventDerivedSets : Update(r, set)

UpdateVenueDerived == \E r \in RowIds, set \in VenueDerivedSets : Update(r, set)

DeleteRow == \E r \in RowIds : Delete(r)

\* Clients that assign only source columns in UPDATE.
NextSrc == InsertEvent \/ InsertVenue \/ UpdateEventSource \/ UpdateVenueSource \/ DeleteRow

SpecSrc == Init /\ [][NextSrc]_vars

\* Every client, those that assign a derived column directly included.
Next == NextSrc \/ UpdateEventDerived \/ UpdateVenueDerived

Spec == Init /\ [][Next]_vars

\* ---------------------------------------------------- concurrent sessions

\* Two sessions, each running one UPDATE in a transaction of its own (READ
\* COMMITTED).  The UPDATE waits for the row lock; once it holds the lock it
\* takes the latest committed version of the row as OLD, builds NEW from its
\* SET list, runs the BEFORE row triggers on NEW and keeps the new version,
\* which other sessions see from COMMIT on.
TxTexts == {NULL, Some(<<"Concerts">>), Some(<<"Night">>)}

TxEventSets ==
  UNION {{[cols |-> cols, vals |-> EventRow(t, d, NULL, NULL)] :
            t \in Pick("title", cols, TxTexts),
            d \in Pick("description", cols, TxTexts)} :
         cols \in SUBSET {"title", "description"} \ {{}}}

TxVenueSets ==
  UNION {{[cols |-> cols, vals |-> VenueRow(NULL, la, lo, NULL, NULL)] :
            la \in Pick("lat", cols, LatVals), lo \in Pick("lon", cols, LonVals)} :
         cols \in SUBSET {"lat", "lon"} \ {{}}}

TxInitRows ==
  {EventRow(t, d, NULL, NULL) : t \in TxTexts, d \in TxTexts}
    \cup {VenueRow(Some(<<"Concerts">>), la, lo, NULL, NULL) : la \in LatVals, lo \in LonVals}

\* One committed row, as its INSERT left it.
InitTx ==
  /\ \E r \in RowIds, new \in TxInitRows :
       rows = [x \in {r} |-> BeforeRowTriggers("insert", {}, new, new)]
  /\ last = [op |-> "insert", id |-> "r1", cols |-> {}]
  /\ sess = [s \in Sessions |-> Idle]
  /\ rowlock = {}
  /\ qry = NoQuery
  /\ proc = NoProcess
  /\ schema = Installed
  /\ mig = NoMigration

\* Session s issues UPDATE ... SET <set> WHERE id = r; `blocked` records that
\* the row was locked by the other session at that moment.
TxIssue(s, r, set) ==
  /\ sess[s].pc = "idle"
  /\ r \in DOMAIN rows
  /\ rows[r].tbl = set.vals.tbl
  /\ sess' = [sess EXCEPT ![s] =
                [pc |-> "waiting", id |-> r, set |-> set, blocked |-> r \in rowlock]]
  /\ UNCHANGED <<rows, last, rowlock, qry, proc, schema, mig>>

\* The row lock is free: s locks the row and the BEFORE row triggers run on
\* NEW built from the latest committed version.
TxLock(s) ==
  /\ sess[s].pc = "waiting"
  /\ sess[s].id \notin rowlock
  /\ rowlock' = rowlock \cup {sess[s].id}
  /\ LET old == rows[sess[s].id]
         set == sess[s].set
     IN  sess' = [sess EXCEPT ![s] =
                    [pc |-> "locked", id |-> sess[s].id, set |-> set,
                     blocked |-> sess[s].blocked, base |-> old,
                     version |-> BeforeRowTriggers("update", set.cols, old,
                                                   ApplySet(old, set))]]
  /\ UNCHANGED <<rows, last, qry, proc, schema, mig>>

\* COMMIT: the new version becomes the committed row; the lock is released.
TxCommit(s) ==
  /\ sess[s].pc = "locked"
  /\ rows' = [rows EXCEPT ![sess[s].id] = sess[s].version]
  /\ rowlock' = rowlock \ {sess[s].id}
  /\ sess' = [sess EXCEPT ![s] =
                [pc |-> "committed", id |-> sess[s].id, set |-> sess[s].set,
                 blocked |-> sess[s].blocked]]
  /\ UNCHANGED <<last, qry, proc, schema, mig>>

\* ROLLBACK: the new version is dropped; the lock is released.
TxRollback(s) ==
  /\ sess[s].pc = "locked"
  /\ rowlock' = rowlock \ {sess[s].id}
  /\ sess' = [sess EXCEPT ![s] = [pc |-> "aborted"]]
  /\ UNCHANGED <<rows, last, qry, proc, schema, mig>>

TxIssueEvent == \E s \in Sessions, r \in RowIds, set \in TxEventSets : TxIssue(s, r, set)

TxIssueVenue == \E s \in Sessions, r \in RowIds, set \in TxVenueSets : TxIssue(s, r, set)

TxLockRow == \E s \in Sessions : TxLock(s)

TxCommitRow == \E s \in Sessions : TxCommit(s)

TxRollbackRow == \E s \in Sessions : TxRollback(s)

NextTx == TxIssueEvent \/ TxIssueVenue \/ TxLockRow \/ TxCommitRow \/ TxRollbackRow

SpecTx == InitTx /\ [][NextTx]_vars

\* ----------------------------------------------------------------- queries

\* Single-word text queries and the centres and radii of radius queries.
QueryWords == Words \cup {"concert", "night"}

Centers == {[lat |-> Coord(39, FALSE), lon |-> Coord(-86, FALSE)],
            [lat |-> Coord(45, FALSE), lon |-> Coord(-86, FALSE)],
            [lat |-> Coord(89, FALSE), lon |-> Coord(-179, FALSE)]}

Radii == {0, 12}

\* Variant: the centre is built latitude first.
CenterPoint_lat_first(c) == ToGeography(ST_SetSRID(ST_MakePoint(c.lat, c.lon), SRID))

\* The centre of a radius query: ST_SetSRID(ST_MakePoint($lon, $lat), 4326)::geography
CenterPoint(c) == ToGeography(ST_SetSRID(ST_MakePoint(c.lon, c.lat), SRID))

\* A text contains the query word: some word of it that is no stop word has
\* the query word's stem.
TextHas(text, q) ==
  /\ ~IsNull(text)
  /\ q \notin StopWords
  /\ \E i \in 1..Len(text[1]) : text[1][i] \notin StopWords /\ Stem(text[1][i]) = Stem(q)

\* The point of a venue's current coordinates, NULL without both.
PointOf(lat, lon) ==
  IF IsNull(lat) \/ IsNull(lon) THEN NULL ELSE Some(VenuePoint(lat[1], lon[1]))

IsEvent(r) == r \in DOMAIN rows /\ rows[r].tbl = "wc_events"

IsVenue(r) == r \in DOMAIN rows /\ rows[r].tbl = "wc_venues"

\* The last statement fired the text trigger of r.
TextTriggerFired(r) ==
  /\ last.id = r
  /\ \/ last.op = "insert"
     \/ last.op = "update" /\ IsEvent(r) /\ last.cols \cap {"title", "description"} # {}
     \/ last.op = "update" /\ IsVenue(r) /\ "name" \in last.cols

\* ------------------------------------------------------------ event search

\* The event search of the backend: every event joined with its venue (v)
\* and with the price range of its offers (ep), narrowed by the clauses of
\* the WHERE clause and ordered by the ORDER BY the sort option selects.
\* One event and one venue are enough for every per-event case.
SearchEvent == "e1"

SearchVenue == "v1"

SearchTitles == {Some(<<"Concerts">>), Some(<<"Night">>)}

SearchStartAts == {Some(1), Some(2)}

SearchLats == {NULL, Some(Coord(39, FALSE)), Some(Coord(45, TRUE))}

SearchLons == {NULL, Some(Coord(-86, FALSE))}

\* ep: MIN and MAX of the prices of the event's offers, NULL without offers.
SearchPrices == {NULL, Some([price_min |-> 10, price_max |-> 10])}

SearchEventRow(t, s, vid, ep) ==
  [tbl |-> "wc_events", title |-> t, description |-> NULL, start_at |-> s,
   search_vector |-> NULL, venue_id |-> vid, ep |-> ep]

SearchVenueSets ==
  UNION {{[cols |-> cols, vals |-> VenueRow(n, la, lo, NULL, NULL)] :
            n \in Pick("name", cols, SearchTitles),
            la \in Pick("lat", cols, SearchLats),
            lo \in Pick("lon", cols, SearchLons)} :
         cols \in SUBSET VenueSourceCols \ {{}}}

\* The venue columns of the joined row: all NULL for an event without venue.
NoVenue == VenueRow(NULL, NULL, NULL, NULL, NULL)

VenueOf(e) ==
  IF ~IsNull(rows[e].venue_id) /\ rows[e].venue_id[1] \in DOMAIN rows
  THEN rows[rows[e].venue_id[1]]
  ELSE NoVenue

\* The filters of a search request; an absent filter is NULL.
SearchRadii == {0, 12}

GeoLocations ==
  {[lat |-> la[1], lon |-> lo[1], radius |-> rad] :
     la \in SearchLats \ {NULL}, lo \in SearchLons \ {NULL}, rad \in SearchRadii}

SearchFilters ==
  [date  : {NULL, Some([date_min |-> 2, date_max |-> 2])},
   geo   : {NULL} \cup {Some(g) : g \in GeoLocations},
   q     : {NULL, Some("concert")},
   price : {NULL, Some([price_min |-> 0, price_max |-> 20])}]

Sorts == {"date", "distance", "relevance"}

\* AND e.start_at >= $date_min AND e.start_at <= $date_max
DateClause(e, f) ==
  \/ IsNull(f.date)
  \/ /\ ~IsNull(rows[e].start_at)
     /\ rows[e].start_at[1] >= f.date[1].date_min
     /\ rows[e].start_at[1] <= f.date[1].date_max

\* Variant: a venue without location passes the radius filter.
GeoClause_null_location_passes(e, f) ==
  \/ IsNull(f.geo)
  \/ IsNull(VenueOf(e).location)
  \/ ST_DWithin(VenueOf(e).location, CenterPoint(f.geo[1]), f.geo[1].radius)

\* AND v.location IS NOT NULL AND ST_DWithin(v.location, <centre>, $radius)
GeoClause(e, f) ==
  \/ IsNull(f.geo)
  \/ /\ ~IsNull(VenueOf(e).location)
     /\ ST_DWithin(VenueOf(e).location, CenterPoint(f.geo[1]), f.geo[1].radius)

\* Variant: only the event's own vector is searched.
TextClause_event_only(e, f) ==
  \/ IsNull(f.q)
  \/ TsMatch(rows[e].search_vector, f.q[1])

\* AND (e.search_vector @@ to_tsquery('english', $query)
\*      OR v.search_vector @@ to_tsquery('english', $query))
TextClause(e, f) ==
  \/ IsNull(f.q)
  \/ TsMatch(rows[e].search_vector, f.q[1])
  \/ TsMatch(VenueOf(e).search_vector, f.q[1])

\* AND ep.price_min >= $price_min AND ep.price_max <= $price_max
PriceClause(e, f) ==
  \/ IsNull(f.price)
  \/ /\ ~IsNull(rows[e].ep)
     /\ rows[e].ep[1].price_min >= f.price[1].price_min
     /\ rows[e].ep[1].price_max <= f.price[1].price_max

Clause(name, e, f) ==
  CASE name = "date"  -> DateClause(e, f)
    [] name = "geo"   -> GeoClause(e, f)
    [] name = "text"  -> TextClause(e, f)
    [] name = "price" -> PriceClause(e, f)

\* Variant: a clause selects from the whole table, not from the rows the
\* clauses before it kept.
Narrow_from_table(c, name, f) == {e \in wc_events : Clause(name, e, f)}

\* One clause of the WHERE clause narrows the rows the clauses before it kept.
Narrow(c, name, f) == {e \in c : Clause(name, e, f)}

RECURSIVE ApplyClauses(_, _, _)
ApplyClauses(order, c, f) ==
  IF order = <<>> THEN c
  ELSE ApplyClauses(Tail(order), Narrow(c, Head(order), f), f)

\* The order the WHERE clause is written in.
WhereOrder == <<"date", "geo", "text", "price">>

\* Sorting: the ORDER BY the sort option selects.
OrderBy(sort, geoLocation, q) ==
  IF sort = "date" THEN "e.start_at ASC"
  ELSE IF sort = "distance" /\ ~IsNull(geoLocation) THEN "ST_Distance ASC"
  ELSE IF ~IsNull(q) THEN "e.start_at DESC" ELSE "e.start_at DESC"

\* ST_Distance(v.location, <centre>) of the SELECT list, present with a
\* geo filter.
DistanceOf(e, f) ==
  IF IsNull(f.geo) \/ IsNull(VenueOf(e).location) THEN NULL
  ELSE Some(ST_Distance(VenueOf(e).location[1], CenterPoint(f.geo[1])))

\* One search request: the query is built from the filters and the sort
\* option and run; no request is refused.
Search(f, sort) ==
  /\ LET events == ApplyClauses(WhereOrder, wc_events, f)
     IN  qry' = [status |-> "ok", filters |-> f, sort |-> sort,
                 orderBy |-> OrderBy(sort, f.geo, f.q), events |-> events,
                 distance |-> [e \in events |-> DistanceOf(e, f)]]
  /\ UNCHANGED <<rows, last, sess, rowlock, proc, schema, mig>>

\* The statements of the clients between searches, through the row triggers;
\* qry holds the response of a search only until the next statement.
SearchInsert(r, new) ==
  /\ r \notin DOMAIN rows
  /\ rows' = [x \in DOMAIN rows \cup {r} |->
                IF x = r THEN BeforeRowTriggers("insert", {}, new, new) ELSE rows[x]]
  /\ qry' = NoQuery
  /\ UNCHANGED <<last, sess, rowlock, proc, schema, mig>>

SearchUpdate(r, set) ==
  /\ r \in DOMAIN rows
  /\ rows[r].tbl = set.vals.tbl
  /\ rows' = [rows EXCEPT ![r] =
                BeforeRowTriggers("update", set.cols, rows[r], ApplySet(rows[r], set))]
  /\ qry' = NoQuery
  /\ UNCHANGED <<last, sess, rowlock, proc, schema, mig>>

SearchDelete(r) ==
  /\ r \in DOMAIN rows
  /\ rows' = [x \in DOMAIN rows \ {r} |-> rows[x]]
  /\ qry' = NoQuery
  /\ UNCHANGED <<last, sess, rowlock, proc, schema, mig>>

SearchInsertEvent ==
  \E t \in SearchTitles, s \in SearchStartAts, vid \in {NULL, Some(SearchVenue)},
     ep \in SearchPrices :
    SearchInsert(SearchEvent, SearchEventRow(t, s, vid, ep))

SearchInsertVenue ==
  \E n \in SearchTitles, la \in SearchLats, lo \in SearchLons :
    SearchInsert(SearchVenue, VenueRow(n, la, lo, NULL, NULL))

SearchUpdateVenue == \E set \in SearchVenueSets : SearchUpdate(SearchVenue, set)

SearchDeleteRow == \E r \in {SearchEvent, SearchVenue} : SearchDelete(r)

SearchRequest == \E f \in SearchFilters, sort \in Sorts : Search(f, sort)

NextSearch ==
  SearchInsertEvent \/ SearchInsertVenue \/ SearchUpdateVenue \/ SearchDeleteRow
    \/ SearchRequest

SpecSearch == Init /\ [][NextSearch]_vars

\* ---------------------------------------------------------------- backfill

\* Step 2 of the text-search migration and of the PostGIS migration: one
\* UPDATE per derived column over the rows that were in the tables before
\* the migration ran.  The SET lists name the derived column alone, so no
\* UPDATE OF trigger fires on these statements.

\* UPDATE wc_events SET search_vector = setweight(to_tsvector('english',
\* COALESCE(title, '')), 'A') || setweight(to_tsvector('english',
\* COALESCE(description, '')), 'B') WHERE search_vector IS NULL
EventSearchVectorWhere(row) == row.tbl = "wc_events" /\ IsNull(row.search_vector)

PopulateEventSearchVector(row) ==
  IF EventSearchVectorWhere(row)
  THEN [row EXCEPT !.search_vector =
          Some(TsConcat(setweight(to_tsvector(COALESCE(row.title, <<>>)), "A"),
                        setweight(to_tsvector(COALESCE(row.description, <<>>)), "B")))]
  ELSE row

\* UPDATE wc_venues SET search_vector = to_tsvector('english',
\* COALESCE(name, '')) WHERE search_vector IS NULL
VenueSearchVectorWhere(row) == row.tbl = "wc_venues" /\ IsNull(row.search_vector)

PopulateVenueSearchVector(row) ==
  IF VenueSearchVectorWhere(row)
  THEN [row EXCEPT !.search_vector = Some(to_tsvector(COALESCE(row.name, <<>>)))]
  ELSE row

\* UPDATE wc_venues SET location = ST_SetSRID(ST_MakePoint(lon::numeric,
\* lat::numeric), 4326)::geography
\* WHERE lat IS NOT NULL AND lon IS NOT NULL AND location IS NULL
VenueLocationWhere(row) ==
  /\ row.tbl = "wc_venues"
  /\ ~IsNull(row.lat)
  /\ ~IsNull(row.lon)
  /\ IsNull(row.location)

\* Variant: the point is built from the double precision values, uncast.
PopulateVenueLocation_no_cast(row) ==
  IF VenueLocationWhere(row)
  THEN [row EXCEPT !.location =
          Some(ToGeography(ST_SetSRID(ST_MakePoint(row.lon[1], row.lat[1]), SRID)))]
  ELSE row

PopulateVenueLocation(row) ==
  IF VenueLocationWhere(row)
  THEN [row EXCEPT !.location =
          Some(ToGeography(ST_SetSRID(ST_MakePoint(ToNumeric(row.lon[1]),
                                                   ToNumeric(row.lat[1])), SRID)))]
  ELSE row

\* The rows found by the migrations: any source fields; the derived columns
\* NULL (the column was just added) or holding a value from before (ADD
\* COLUMN IF NOT EXISTS found the column).
InitMig ==
  /\ \E r \in RowIds :
       \/ \E t \in Texts, d \in Texts, s \in StartAts, sv \in {NULL} \cup DirectVectors :
            rows = [x \in {r} |-> EventRow(t, d, s, sv)]
       \/ \E n \in Texts, la \in LatVals, lo \in LonVals,
             loc \in {NULL} \cup DirectPoints, sv \in {NULL} \cup DirectVectors :
            rows = [x \in {r} |-> VenueRow(n, la, lo, loc, sv)]
  /\ last = [op |-> "none", id |-> "", cols |-> {}]
  /\ sess = [s \in Sessions |-> Idle]
  /\ rowlock = {}
  /\ qry = NoQuery
  /\ proc = NoProcess
  /\ schema = Installed
  /\ mig = NoMigration

\* One backfill UPDATE: `selected` are the rows its WHERE clause selects and
\* `written` the table as the statement leaves it; `last` names the row that
\* was selected, if any.
Backfill(selected, written, col) ==
  /\ rows' = written
  /\ last' = [op |-> "backfill",
              id |-> IF selected # {} THEN CHOOSE r \in selected : TRUE ELSE "",
              cols |-> {col}]
  /\ UNCHANGED <<sess, rowlock, qry, proc, schema, mig>>

BackfillEventSearchVector ==
  Backfill({r \in DOMAIN rows : EventSearchVectorWhere(rows[r])},
           [r \in DOMAIN rows |-> PopulateEventSearchVector(rows[r])], "search_vector")

BackfillVenueSearchVector ==
  Backfill({r \in DOMAIN rows : VenueSearchVectorWhere(rows[r])},
           [r \in DOMAIN rows |-> PopulateVenueSearchVector(rows[r])], "search_vector")

BackfillVenueLocation ==
  Backfill({r \in DOMAIN rows : VenueLocationWhere(rows[r])},
           [r \in DOMAIN rows |-> PopulateVenueLocation(rows[r])], "location")

NextMig == BackfillEventSearchVector \/ BackfillVenueSearchVector \/ BackfillVenueLocation

SpecMig == InitMig /\ [][NextMig]_vars

\* ------------------------------------------------------------ helper scripts

\* scripts/migrate.js and scripts/client.js.  One run of a script is two
\* steps: everything up to the call of execSync (which starts the prisma
\* subprocess and blocks), and everything after execSync has returned or
\* thrown.  proc.out is what the run has printed so far.

\* Most arguments after the command on the command line.
MaxArgs == 2

Commands == {"", "dev", "deploy", "reset", "status", "resolve", "bogus"}

\* An argument is a string, written as its pieces: words and the blanks
\* between them (the last one is the single argument "add users").
ArgValues == {<<"--name">>, <<"init">>, <<"add", " ", "users">>}

\* process.argv from index 2 on: nothing, or a command and further arguments.
Argvs ==
  {<<>>} \cup {<<c>> \o a : c \in Commands, a \in SeqsUpTo(ArgValues, MaxArgs)}

\* Variant: every command is taken for valid.
validCommands_unchecked == Commands

validCommands == {"dev", "deploy", "reset", "status", "resolve"}

\* const command = process.argv[2] || "dev"
CommandOf(argv) == IF Len(argv) >= 1 /\ argv[1] # "" THEN argv[1] ELSE "dev"

\* const args = process.argv.slice(3)
ArgsOf(argv) == IF Len(argv) >= 1 THEN Tail(argv) ELSE <<>>

\* args.join(" "): the arguments with one blank between neighbours.
RECURSIVE Join(_)
Join(args) ==
  IF args = <<>> THEN <<>>
  ELSE IF Len(args) = 1 THEN args[1]
  ELSE args[1] \o <<" ">> \o Join(Tail(args))

\* `npx prisma migrate ${command} --schema="${schemaPath}" ${args.join(" ")}`
fullCommand(command, args) ==
  <<"npx", " ", "prisma", " ", "migrate", " ", command, " ", "--schema=schemaPath", " ">>
    \o Join(args)

\* execSync(string) hands the string to the shell, which splits it at
\* blanks into the words of the command it starts.
RECURSIVE ShellWords(_, _)
ShellWords(str, word) ==
  IF str = <<>> THEN (IF word = <<>> THEN <<>> ELSE <<word>>)
  ELSE IF Head(str) = " "
       THEN (IF word = <<>> THEN <<>> ELSE <<word>>) \o ShellWords(Tail(str), <<>>)
       ELSE ShellWords(Tail(str), Append(word, Head(str)))

execSync(str) == ShellWords(str, <<>>)

\* migrate.js up to execSync: the command is checked, and either the run
\* ends with exit code 1 or the subprocess is started.
MigrateStart(argv) ==
  LET command == CommandOf(argv)
      args == ArgsOf(argv)
      banner == <<"Running database migration", "Schema path", "Command">>
  IN  IF command \notin validCommands
      THEN [pc |-> "exited", script |-> "migrate", entry |-> "cli", argv |-> argv,
            command |-> command, args |-> args,
            out |-> banner \o <<"Invalid command", "Valid commands">>,
            spawned |-> 0, child |-> <<>>, status |-> NULL, exitCode |-> 1]
      ELSE [pc |-> "execSync", script |-> "migrate", entry |-> "cli", argv |-> argv,
            command |-> command, args |-> args,
            out |-> Append(banner, "Executing"),
            spawned |-> 1, child |-> execSync(fullCommand(command, args)),
            status |-> NULL,
            exitCode |-> 0]

\* client.js up to execSync.
ClientStart ==
  [pc |-> "execSync", script |-> "client", entry |-> "cli", argv |-> <<>>,
   command |-> "generate", args |-> <<>>,
   out |-> <<"Generating Prisma client", "Schema path">>,
   spawned |-> 1,
   child |-> execSync(<<"npx", " ", "prisma", " ", "generate", " ", "--schema=schemaPath">>),
   status |-> NULL, exitCode |-> 0]

SuccessMessages(script) ==
  IF script = "migrate" THEN <<"Migration completed successfully">>
  ELSE <<"Prisma client generated successfully", "Client available">>

FailureMessage(script) ==
  IF script = "migrate" THEN "Migration failed" ELSE "Failed to generate Prisma client"

\* Variant: the success message is printed before execSync is called.
AfterExecSync_message_first(p, status) ==
  IF status = 0
  THEN [p EXCEPT !.pc = "exited", !.status = Some(status),
                 !.out = p.out \o SuccessMessages(p.script)]
  ELSE [p EXCEPT !.pc = "exited", !.status = Some(status), !.exitCode = 1,
                 !.out = p.out \o SuccessMessages(p.script)
                           \o <<FailureMessage(p.script)>>]

\* The rest of the try block when execSync returned (status 0), the catch
\* block when it threw (the subprocess failed).
AfterExecSync(p, status) ==
  IF status = 0
  THEN [p EXCEPT !.pc = "exited", !.status = Some(status),
                 !.out = p.out \o SuccessMessages(p.script)]
  ELSE [p EXCEPT !.pc = "exited", !.status = Some(status), !.exitCode = 1,
                 !.out = Append(p.out, FailureMessage(p.script))]

RunMigrate ==
  /\ proc.pc \in {"none", "exited"}
  /\ \E argv \in Argvs : proc' = MigrateStart(argv)
  /\ UNCHANGED <<rows, last, sess, rowlock, qry, schema, mig>>

RunClient ==
  /\ proc.pc \in {"none", "exited"}
  /\ proc' = ClientStart
  /\ UNCHANGED <<rows, last, sess, rowlock, qry, schema, mig>>

\* The subprocess ends with exit status 0 or with another status.
ExecSyncReturns ==
  /\ proc.pc = "execSync"
  /\ \E status \in {0, 1} : proc' = AfterExecSync(proc, status)
  /\ UNCHANGED <<rows, last, sess, rowlock, qry, schema, mig>>

\* require("index.js") in a host process started with the arguments argv:
\* building module.exports evaluates require("./scripts/client"), which
\* runs client.js ...
RequireIndex ==
  /\ proc.pc \in {"none", "exited"}
  /\ \E argv \in Argvs : proc' = [ClientStart EXCEPT !.entry = "index.js", !.argv = argv]
  /\ UNCHANGED <<rows, last, sess, rowlock, qry, schema, mig>>

\* ... and, when client.js has run to its end, require("./scripts/migrate"),
\* which runs migrate.js on the arguments of the host process.
RequireMigrate ==
  /\ proc.pc = "exited" /\ proc.entry = "index.js"
  /\ proc.script = "client" /\ proc.exitCode = 0
  /\ proc' = [MigrateStart(proc.argv) EXCEPT !.entry = "index.js"]
  /\ UNCHANGED <<rows, last, sess, rowlock, qry, schema, mig>>

NextJs == RunMigrate \/ RunClient \/ ExecSyncReturns \/ RequireIndex \/ RequireMigrate

SpecJs == Init /\ [][NextJs]_vars

\* ------------------------------------------------------- migration scripts

\* A migration script is its statements in order.  A run executes them one
\* by one; mig.saved is the database as the run found it.
Stmt(op, obj) == [op |-> op, obj |-> obj]

\* The text-search migration.
TextSearchScript ==
  <<Stmt("add_column", "column wc_events.search_vector"),
    Stmt("comment", "column wc_events.search_vector"),
    Stmt("add_column", "column wc_venues.search_vector"),
    Stmt("comment", "column wc_venues.search_vector"),
    Stmt("update", "column wc_events.search_vector"),
    Stmt("update", "column wc_venues.search_vector"),
    Stmt("do_notice", ""),
    Stmt("create_index", "index idx_wc_events_search_vector"),
    Stmt("comment", "index idx_wc_events_search_vector"),
    Stmt("create_index", "index idx_wc_venues_search_vector"),
    Stmt("comment", "index idx_wc_venues_search_vector"),
    Stmt("create_extension", "extension pg_trgm"),
    Stmt("create_index", "index idx_wc_events_title_trgm"),
    Stmt("create_index", "index idx_wc_events_description_trgm"),
    Stmt("create_index", "index idx_wc_venues_name_trgm"),
    Stmt("create_function", "function update_event_search_vector"),
    Stmt("create_function", "function update_venue_search_vector"),
    Stmt("drop_trigger", "trigger trigger_update_event_search_vector"),
    Stmt("create_trigger", "trigger trigger_update_event_search_vector"),
    Stmt("drop_trigger", "trigger trigger_update_venue_search_vector"),
    Stmt("create_trigger", "trigger trigger_update_venue_search_vector"),
    Stmt("analyze", "wc_events"),
    Stmt("analyze", "wc_venues"),
    Stmt("select", ""), Stmt("select", ""), Stmt("select", ""), Stmt("select", ""),
    Stmt("do_notice", "")>>

\* The PostGIS migration.  Its last statements are RAISE NOTICE lines that
\* stand outside any DO block.
PostgisScript ==
  <<Stmt("create_extension", "extension postgis"),
    Stmt("do_verify", "extension postgis"),
    Stmt("add_column", "column wc_venues.location"),
    Stmt("comment", "column wc_venues.location"),
    Stmt("update", "column wc_venues.location"),
    Stmt("do_notice", ""),
    Stmt("create_index", "index idx_wc_venues_location"),
    Stmt("comment", "index idx_wc_venues_location"),
    Stmt("drop_trigger", "trigger trigger_update_venue_location"),
    Stmt("drop_function", "function update_venue_location"),
    Stmt("create_function", "function update_venue_location"),
    Stmt("comment", "function update_venue_location"),
    Stmt("create_trigger", "trigger trigger_update_venue_location"),
    Stmt("analyze", "wc_venues"),
    Stmt("select", ""), Stmt("select", ""), Stmt("select", ""),
    Stmt("raise_notice", ""), Stmt("raise_notice", ""), Stmt("raise_notice", ""),
    Stmt("raise_notice", ""), Stmt("raise_notice", "")>>

Scripts == {"text_search", "postgis"}

ScriptOf(name) == IF name = "text_search" THEN TextSearchScript ELSE PostgisScript

\* EXECUTE FUNCTION <function> of a CREATE TRIGGER statement.
FunctionOf(trigger) ==
  CASE trigger = "trigger trigger_update_event_search_vector"
         -> "function update_event_search_vector"
    [] trigger = "trigger trigger_update_venue_search_vector"
         -> "function update_venue_search_vector"
    [] trigger = "trigger trigger_update_venue_location"
         -> "function update_venue_location"

\* The table as a backfill UPDATE leaves it.
Populated(column, tbl) ==
  [r \in DOMAIN tbl |->
     CASE column = "column wc_events.search_vector" -> PopulateEventSearchVector(tbl[r])
       [] column = "column wc_venues.search_vector" -> PopulateVenueSearchVector(tbl[r])
       [] column = "column wc_venues.location"      -> PopulateVenueLocation(tbl[r])]

\* One statement on the database db = [rows, schema]: whether it succeeds,
\* and the database it leaves.  IF NOT EXISTS, IF EXISTS and OR REPLACE make
\* a statement succeed whatever the schema holds; CREATE TRIGGER needs its
\* function and fails on a trigger of the same name; RAISE is a PL/pgSQL
\* statement and a syntax error outside a function body or DO block.
Exec(stmt, db) ==
  CASE stmt.op \in {"add_column", "create_index", "create_extension", "create_function"}
         -> [ok |-> TRUE, rows |-> db.rows, schema |-> db.schema \cup {stmt.obj}]
    [] stmt.op \in {"drop_trigger", "drop_function"}
         -> [ok |-> TRUE, rows |-> db.rows, schema |-> db.schema \ {stmt.obj}]
    [] stmt.op = "create_trigger"
         -> IF stmt.obj \notin db.schema /\ FunctionOf(stmt.obj) \in db.schema
            THEN [ok |-> TRUE, rows |-> db.rows, schema |-> db.schema \cup {stmt.obj}]
            ELSE [ok |-> FALSE, rows |-> db.rows, schema |-> db.schema]
    [] stmt.op = "update"
         -> [ok |-> TRUE, rows |-> Populated(stmt.obj, db.rows), schema |-> db.schema]
    [] stmt.op = "do_verify"
         -> [ok |-> stmt.obj \in db.schema, rows |-> db.rows, schema |-> db.schema]
    [] stmt.op = "raise_notice"
         -> [ok |-> FALSE, rows |-> db.rows, schema |-> db.schema]
    [] OTHER
         -> [ok |-> TRUE, rows |-> db.rows, schema |-> db.schema]

\* What was in place before a migration runs: nothing, or the derived
\* columns (added by hand or by an earlier run) with values in them.
PreExisting == {"extension postgis", "column wc_venues.location"} \cup TextSearchColumns

MigNames == {NULL, Some(<<"Concerts">>)}

\* Tables as the migrations find them: empty, or one row with any source
\* fields whose derived columns are NULL or, where the columns were there
\* before, hold values written when no trigger was installed.
InitInstall ==
  /\ schema \in {{}, PreExisting}
  /\ LET old(S) == IF schema = {} THEN {NULL} ELSE {NULL} \cup S
     IN  \/ rows = <<>>
         \/ \E r \in RowIds, t \in TxTexts, d \in TxTexts, sv \in old(DirectVectors) :
              rows = [x \in {r} |-> EventRow(t, d, NULL, sv)]
         \/ \E r \in RowIds, n \in MigNames, la \in LatVals, lo \in LonVals,
               loc \in old(DirectPoints), sv \in old(DirectVectors) :
              rows = [x \in {r} |-> VenueRow(n, la, lo, loc, sv)]
  /\ mig = NoMigration
  /\ last = [op |-> "none", id |-> "", cols |-> {}]
  /\ sess = [s \in Sessions |-> Idle]
  /\ rowlock = {}
  /\ qry = NoQuery
  /\ proc = NoProcess

\* A run of a migration script begins.
StartMigration ==
  /\ mig.status # "running"
  /\ \E name \in Scripts :
       mig' = [status |-> "running", script |-> name, pc |-> 1,
               saved |-> [rows |-> rows, schema |-> schema]]
  /\ UNCHANGED <<rows, last, sess, rowlock, qry, proc, schema>>

CurrentStatement == ScriptOf(mig.script)[mig.pc]

\* The next statement of the running script succeeds; after the last
\* statement the run has ended successfully.
StatementSucceeds ==
  /\ mig.status = "running"
  /\ LET res == Exec(CurrentStatement, [rows |-> rows, schema |-> schema])
     IN  /\ res.ok
         /\ rows' = res.rows
         /\ schema' = res.schema
  /\ mig' = IF mig.pc = Len(ScriptOf(mig.script))
            THEN [status |-> "done", script |-> mig.script]
            ELSE [mig EXCEPT !.pc = @ + 1]
  /\ UNCHANGED <<last, sess, rowlock, qry, proc>>

\* The next statement fails and the run ends.  Run with one commit per
\* statement, what the earlier statements did stays.
StatementFailsAutocommit ==
  /\ mig.status = "running"
  /\ ~Exec(CurrentStatement, [rows |-> rows, schema |-> schema]).ok
  /\ mig' = [status |-> "failed", script |-> mig.script]
  /\ UNCHANGED <<rows, last, sess, rowlock, qry, proc, schema>>

\* Run as one transaction, the failure rolls the whole run back.
StatementFailsRollback ==
  /\ mig.status = "running"
  /\ ~Exec(CurrentStatement, [rows |-> rows, schema |-> schema]).ok
  /\ mig' = [status |-> "failed", script |-> mig.script]
  /\ rows' = mig.saved.rows
  /\ schema' = mig.saved.schema
  /\ UNCHANGED <<last, sess, rowlock, qry, proc>>

\* Client statements once every trigger is installed and no script runs.
TriggersInstalled ==
  /\ mig.status # "running"
  /\ {"trigger trigger_update_event_search_vector",
      "trigger trigger_update_venue_search_vector",
      "trigger trigger_update_venue_location"} \subseteq schema

\* UPDATE ... SET search_vector = <value or NULL> / SET location = <value or NULL>
MigDerivedSets ==
  {[cols |-> {"search_vector"}, vals |-> EventRow(NULL, NULL, NULL, sv)] :
      sv \in {NULL} \cup DirectVectors}
    \cup {[cols |-> {"search_vector"}, vals |-> VenueRow(NULL, NULL, NULL, NULL, sv)] :
            sv \in {NULL} \cup DirectVectors}
    \cup {[cols |-> {"location"}, vals |-> VenueRow(NULL, NULL, NULL, loc, NULL)] :
            loc \in {NULL} \cup DirectPoints}

MigInsertEvent ==
  /\ TriggersInstalled
  /\ \E r \in RowIds, t \in TxTexts, d \in TxTexts :
       SearchInsert(r, EventRow(t, d, NULL, NULL))

MigInsertVenue ==
  /\ TriggersInstalled
  /\ \E r \in RowIds, n \in MigNames, la \in LatVals, lo \in LonVals :
       SearchInsert(r, VenueRow(n, la, lo, NULL, NULL))

MigUpdateSource ==
  /\ TriggersInstalled
  /\ \E r \in RowIds, set \in TxEventSets \cup TxVenueSets : SearchUpdate(r, set)

MigUpdateDerived ==
  /\ TriggersInstalled
  /\ \E r \in RowIds, set \in MigDerivedSets : SearchUpdate(r, set)

MigDeleteRow ==
  /\ TriggersInstalled
  /\ \E r \in RowIds : SearchDelete(r)

NextInstall ==
  StartMigration \/ StatementSucceeds \/ StatementFailsAutocommit
    \/ StatementFailsRollback \/ MigInsertEvent \/ MigInsertVenue \/ MigUpdateSource
    \/ MigUpdateDerived \/ MigDeleteRow

SpecInstall == InitInstall /\ [][NextInstall]_vars

\* ------------------------------------------------------------- foreign keys
\* The application tables of the Prisma migrations.  Only the primary key and
\* the id-valued columns of a row matter here: a row is
\* [tbl, ref], ref mapping each such column to NULL or Some(id).

\* At most this many rows in the database at once.
MaxRows == 4

\* The primary keys a client may use, per table ("id" TEXT NOT NULL,
\* PRIMARY KEY ("id")); ids are distinct across tables.
TableIds ==
  [ users                |-> {"user1", "user2"},
    plans                |-> {"plan1"},
    cached_events        |-> {"cached1"},
    groups               |-> {"group1"},
    calendar_connections |-> {"conn1"},
    shared_calendars     |-> {"shared1"},
    accounts             |-> {"account1"},
    sessions             |-> {"session1"},
    user_preferences     |-> {"pref1"},
    group_members        |-> {"member1"},
    event_proposals      |-> {"proposal1"},
    event_votes          |-> {"vote1"},
    chat_messages        |-> {"chat1"},
    group_activities     |-> {"activity1"},
    group_invites        |-> {"invite1"},
    plan_wizard_states   |-> {"wizard1"} ]

Tables == DOMAIN TableIds

AllIds == UNION {TableIds[t] : t \in Tables}

RefColumn(tbl, col, notNull) == [tbl |-> tbl, col |-> col, notNull |-> notNull]

\* The id-valued columns of the CREATE TABLE / ADD COLUMN statements, with
\* their NOT NULL marking.
RefColumns ==
  { RefColumn("plan_wizard_states", "planId", TRUE),
    RefColumn("group_activities", "groupId", TRUE),
    RefColumn("group_activities", "userId", FALSE),
    RefColumn("group_invites", "groupId", TRUE),
    RefColumn("group_invites", "invitedBy", TRUE),
    RefColumn("group_invites", "usedBy", FALSE),
    RefColumn("accounts", "userId", TRUE),
    RefColumn("sessions", "userId", TRUE),
    RefColumn("group_members", "groupId", TRUE),
    RefColumn("group_members", "userId", TRUE),
    RefColumn("calendar_connections", "userId", TRUE),
    RefColumn("shared_calendars", "connectionId", TRUE),
    RefColumn("event_proposals", "groupId", TRUE),
    RefColumn("event_proposals", "proposerId", TRUE),
    RefColumn("event_proposals", "cachedEventId", FALSE),
    RefColumn("event_votes", "proposalId", TRUE),
    RefColumn("event_votes", "userId", TRUE),
    RefColumn("chat_messages", "groupId", FALSE),
    RefColumn("chat_messages", "proposalId", FALSE),
    RefColumn("chat_messages", "userId", TRUE),
    RefColumn("groups", "createdBy", TRUE),
    RefColumn("user_preferences", "userId", TRUE) }

ColumnsOf(tbl) == {c.col : c \in {k \in RefColumns : k.tbl = tbl}}

ForeignKey(tbl, col, ref, onDelete) ==
  [tbl |-> tbl, col |-> col, ref |-> ref, onDelete |-> onDelete]

\* The database before the migration that adds groups.createdBy's
\* constraint: the column is there, unconstrained.
ForeignKeys_without_createdBy ==
  { ForeignKey("plan_wizard_states", "planId", "plans", "CASCADE"),
    ForeignKey("group_activities", "groupId", "groups", "CASCADE"),
    ForeignKey("group_activities", "userId", "users", "SET NULL"),
    ForeignKey("group_invites", "groupId", "groups", "CASCADE"),
    ForeignKey("group_invites", "invitedBy", "users", "CASCADE"),
    ForeignKey("group_invites", "usedBy", "users", "SET NULL"),
    ForeignKey("accounts", "userId", "users", "CASCADE"),
    ForeignKey("sessions", "userId", "users", "CASCADE"),
    ForeignKey("group_members", "groupId", "groups", "CASCADE"),
    ForeignKey("group_members", "userId", "users", "CASCADE"),
    ForeignKey("calendar_connections", "userId", "users", "CASCADE"),
    ForeignKey("shared_calendars", "connectionId", "calendar_connections",
               "CASCADE"),
    ForeignKey("event_proposals", "groupId", "groups", "CASCADE"),
    ForeignKey("event_proposals", "proposerId", "users", "CASCADE"),
    ForeignKey("event_votes", "proposalId", "event_proposals", "CASCADE"),
    ForeignKey("event_votes", "userId", "users", "CASCADE"),
    ForeignKey("chat_messages", "groupId", "groups", "CASCADE"),
    ForeignKey("chat_messages", "proposalId", "event_proposals", "CASCADE"),
    ForeignKey("chat_messages", "userId", "users", "CASCADE"),
    ForeignKey("event_proposals", "cachedEventId", "cached_events",
               "SET NULL"),
    ForeignKey("user_preferences", "userId", "users", "CASCADE") }

\* ALTER TABLE ... ADD CONSTRAINT ... FOREIGN KEY (col) REFERENCES ref("id")
\* ON DELETE ... ON UPDATE CASCADE, all of them.
ForeignKeys ==
  ForeignKeys_without_createdBy
    \cup {ForeignKey("groups", "createdBy", "users", "CASCADE")}

ConstraintsOn(tbl, col) == {fk \in ForeignKeys : fk.tbl = tbl /\ fk.col = col}

\* The values an INSERT may give a column: NULL unless the column is NOT
\* NULL, or any id; a foreign key on the column rejects an id that is not
\* the key of a row of the referenced table.
FkValues(db, tbl, col) ==
  { v \in {NULL} \cup {Some(i) : i \in AllIds} :
      /\ v = NULL => \E c \in RefColumns :
                       c.tbl = tbl /\ c.col = col /\ ~c.notNull
      /\ v # NULL => \A fk \in ConstraintsOn(tbl, col) :
                       /\ v[1] \in DOMAIN db
                       /\ db[v[1]].tbl = fk.ref }

\* The rows an ON DELETE CASCADE removes together with the rows of D,
\* followed through every level.
RECURSIVE Cascade(_, _)
Cascade(db, D) ==
  LET more == { x \in DOMAIN db \ D :
                  \E fk \in ForeignKeys :
                    /\ fk.tbl = db[x].tbl
                    /\ fk.onDelete = "CASCADE"
                    /\ db[x].ref[fk.col] \in {Some(d) : d \in D} }
  IN  IF more = {} THEN D ELSE Cascade(db, D \cup more)

\* The remaining rows, their ON DELETE SET NULL columns that referenced a
\* row of D set to NULL.
SetNull(db, D) ==
  [ x \in DOMAIN db \ D |->
      [ tbl |-> db[x].tbl,
        ref |-> [ c \in DOMAIN db[x].ref |->
                    IF /\ db[x].ref[c] \in {Some(d) : d \in D}
                       /\ \E fk \in ConstraintsOn(db[x].tbl, c) :
                            fk.onDelete = "SET NULL"
                    THEN NULL
                    ELSE db[x].ref[c] ] ] ]

\* The id-valued columns of a row an INSERT INTO tbl accepts: one accepted
\* value for each column of cols.
RECURSIVE FkRefs(_, _, _)
FkRefs(db, tbl, cols) ==
  IF cols = {} THEN {<<>>}
  ELSE LET c == CHOOSE k \in cols : TRUE
       IN  { f @@ (c :> v) : f \in FkRefs(db, tbl, cols \ {c}),
                             v \in FkValues(db, tbl, c) }

\* INSERT INTO tbl: a new primary key, every foreign key checked.
FkInsert ==
  \E tbl \in Tables :
    \E id \in TableIds[tbl] \ DOMAIN rows :
      \E ref \in FkRefs(rows, tbl, ColumnsOf(tbl)) :
        /\ Cardinality(DOMAIN rows) < MaxRows
        /\ rows' = [x \in DOMAIN rows \cup {id} |->
                      IF x = id THEN [tbl |-> tbl, ref |-> ref] ELSE rows[x]]
        /\ last' = [op |-> "insert", id |-> id, cols |-> {}]
        /\ UNCHANGED <<sess, rowlock, qry, proc, schema, mig>>

\* DELETE FROM tbl WHERE id = ...: the row, its ON DELETE CASCADE dependents,
\* and the SET NULL of the others.
FkDelete ==
  \E id \in DOMAIN rows :
    /\ rows' = SetNull(rows, Cascade(rows, {id}))
    /\ last' = [op |-> "delete", id |-> id, cols |-> {}]
    /\ UNCHANGED <<sess, rowlock, qry, proc, schema, mig>>

NextFk == FkInsert \/ FkDelete

SpecFk == Init /\ [][NextFk]_vars

\* ------------------------------------------------------------------ claims

\* C1: no stale index.  With clients that assign only source columns, every
\* stored search_vector and location is the derivation of the row's current
\* source fields: a word query returns the row exactly when the current
\* title/description (name) contains the word, and a radius query returns a
\* venue exactly when the point of its current lat/lon lies within the radius.
C1_NoStaleIndex ==
  \A r \in DOMAIN rows :
    LET row == rows[r] IN
    IF row.tbl = "wc_events"
    THEN /\ row.search_vector = Some(EventTextDerive(row.title, row.description))
         /\ \A q \in QueryWords :
              TsMatch(row.search_vector, q) <=>
                (TextHas(row.title, q) \/ TextHas(row.description, q))
    ELSE /\ row.search_vector = Some(to_tsvector(COALESCE(row.name, <<>>)))
         /\ \A q \in QueryWords : TsMatch(row.search_vector, q) <=> TextHas(row.name, q)
         /\ row.location = PointOf(row.lat, row.lon)
         /\ \A c \in Centers, d \in Radii :
              ST_DWithin(row.location, CenterPoint(c), d) <=>
                ST_DWithin(PointOf(row.lat, row.lon), CenterPoint(c), d)

\* C1 witness: an update that named only description has written it, and the
\* event is found by the words of its current title and description.
C1_Witness ==
  \E r \in DOMAIN rows :
    /\ IsEvent(r) /\ last.op = "update" /\ last.id = r
    /\ last.cols = {"description"}
    /\ rows[r].title = Some(<<"Concerts">>)
    /\ rows[r].description = Some(<<"Night">>)
    /\ TsMatch(rows[r].search_vector, "night")
    /\ TsMatch(rows[r].search_vector, "concert")
    /\ ~TsMatch(rows[r].search_vector, "the")

\* C2: a venue's location is non-null exactly when both lat and lon are
\* non-null, after any inserts and any updates that assign lat and/or lon.
C2_LocationIffBoth ==
  \A r \in DOMAIN rows :
    rows[r].tbl = "wc_venues" =>
      (~IsNull(rows[r].location) <=> (~IsNull(rows[r].lat) /\ ~IsNull(rows[r].lon)))

\* C2 witness: an update that named only lat set it to NULL on a venue that
\* keeps its lon, and the location is cleared.
C2_Witness ==
  \E r \in DOMAIN rows :
    /\ IsVenue(r) /\ last.op = "update" /\ last.id = r
    /\ last.cols = {"lat"}
    /\ IsNull(rows[r].lat) /\ ~IsNull(rows[r].lon) /\ IsNull(rows[r].location)

\* C3 (as claimed): in every reachable state each derived column equals the
\* derivation of its source columns, direct assignments included.
C3_DerivedNeverMutated ==
  \A r \in DOMAIN rows :
    LET row == rows[r] IN
    IF row.tbl = "wc_events"
    THEN row.search_vector = Some(EventTextDerive(row.title, row.description))
    ELSE /\ row.search_vector = Some(to_tsvector(COALESCE(row.name, <<>>)))
         /\ row.location = PointOf(row.lat, row.lon)

\* C4 (as claimed): no venue row holds a location together with a lat outside
\* [-90, 90] or a lon outside [-180, 180].
C4_NoOutOfRangePersisted ==
  \A r \in DOMAIN rows :
    (rows[r].tbl = "wc_venues" /\ ~IsNull(rows[r].location)) =>
      /\ rows[r].lat[1].deg >= -90 /\ rows[r].lat[1].deg <= 90
      /\ rows[r].lon[1].deg >= -180 /\ rows[r].lon[1].deg <= 180

\* C5: two committed concurrent updates of one venue, one assigning only lat
\* and one assigning only lon, leave the lat and the lon each of them wrote,
\* and the location is the point of exactly these two values.
C5_ConcurrentLatLon ==
  \A s, t \in Sessions :
    (/\ sess[s].pc = "committed" /\ sess[t].pc = "committed"
     /\ sess[s].id = sess[t].id
     /\ sess[s].set.vals.tbl = "wc_venues"
     /\ sess[s].set.cols = {"lat"} /\ sess[t].set.cols = {"lon"})
    => LET row == rows[sess[s].id] IN
       /\ row.lat = sess[s].set.vals.lat
       /\ row.lon = sess[t].set.vals.lon
       /\ row.location = PointOf(row.lat, row.lon)

\* C5 witness: the lon update was issued while the lat update held the row
\* lock; both committed and the venue has the point of the two new values.
C5_Witness ==
  /\ sess["s1"].pc = "committed" /\ sess["s2"].pc = "committed"
  /\ sess["s1"].set.cols = {"lat"} /\ sess["s2"].set.cols = {"lon"}
  /\ sess["s2"].blocked /\ ~sess["s1"].blocked
  /\ sess["s1"].set.vals.lat = Some(Coord(45, TRUE))
  /\ sess["s2"].set.vals.lon = Some(Coord(181, FALSE))
  /\ rows["r1"].location =
       Some([x |-> Coord(-179, FALSE), y |-> Coord(45, FALSE), srid |-> SRID])

\* A new row version whose source field differs from the old version's
\* carries the derivation of its own source fields.
DerivedWithSource(old, new) ==
  IF new.tbl = "wc_events"
  THEN (new.title # old.title \/ new.description # old.description) =>
         new.search_vector = Some(EventTextDerive(new.title, new.description))
  ELSE /\ new.name # old.name =>
            new.search_vector = Some(to_tsvector(COALESCE(new.name, <<>>)))
       /\ (new.lat # old.lat \/ new.lon # old.lon) =>
            new.location = PointOf(new.lat, new.lon)

\* C6: no row version, uncommitted in the writing transaction or committed and
\* visible to readers, has a changed source field without the derived column
\* of that same version being derived from it.
C6_NoSourceWithoutDerived ==
  [][/\ \A s \in Sessions :
          sess'[s].pc = "locked" => DerivedWithSource(sess'[s].base, sess'[s].version)
     /\ \A r \in DOMAIN rows \cap DOMAIN rows' :
          DerivedWithSource(rows[r], rows'[r])]_vars

\* C6 witness: a transaction holds an uncommitted venue version with a new lat
\* and the point of the new lat, while readers still see the old lat with the
\* old point.
C6_Witness ==
  \E s \in Sessions :
    /\ sess[s].pc = "locked"
    /\ sess[s].version.tbl = "wc_venues"
    /\ sess[s].version.lat # sess[s].base.lat
    /\ ~IsNull(sess[s].version.location)
    /\ sess[s].version.location # sess[s].base.location
    /\ rows[sess[s].id] = sess[s].base

\* C7: after a write that fires the event text trigger, every title word that
\* is no stop word is stored with weight A, every such description word with
\* weight B (a word of both with both), and no entry has any other origin.
C7_EventWeights ==
  \A r \in DOMAIN rows :
    (IsEvent(r) /\ TextTriggerFired(r)) =>
      LET row == rows[r]
          sv  == row.search_vector[1]
          t   == COALESCE(row.title, <<>>)
          d   == COALESCE(row.description, <<>>)
          From(text, l) == \E i \in 1..Len(text) : text[i] \notin StopWords /\ Stem(text[i]) = l
      IN  /\ ~IsNull(row.search_vector)
          /\ \A i \in 1..Len(t) : t[i] \notin StopWords =>
                \E e \in sv : e.lex = Stem(t[i]) /\ e.w = "A"
          /\ \A i \in 1..Len(d) : d[i] \notin StopWords =>
                \E e \in sv : e.lex = Stem(d[i]) /\ e.w = "B"
          /\ \A e \in sv : \/ e.w = "A" /\ From(t, e.lex)
                           \/ e.w = "B" /\ From(d, e.lex)

\* C7 witness: a word of both title and description is stored with both weights.
C7_Witness ==
  \E r \in DOMAIN rows :
    /\ IsEvent(r) /\ TextTriggerFired(r)
    /\ rows[r].title = Some(<<"Concerts">>) /\ rows[r].description = Some(<<"Concerts">>)
    /\ \E a, b \in rows[r].search_vector[1] :
         a.lex = "concert" /\ a.w = "A" /\ b.lex = "concert" /\ b.w = "B"

\* C8 (as claimed): after a write that fires the venue text trigger, every
\* entry of the venue's search_vector has weight A.
C8_VenueNameWeightA ==
  \A r \in DOMAIN rows :
    (IsVenue(r) /\ TextTriggerFired(r)) =>
      /\ ~IsNull(rows[r].search_vector)
      /\ \A e \in rows[r].search_vector[1] : e.w = "A"

\* C9: text derivation is total.  After every insert and every update naming a
\* text source column the search_vector is non-null and is the vector of the
\* source texts with each NULL read as the empty string.
C9_TextDerivationTotal ==
  \A r \in DOMAIN rows :
    TextTriggerFired(r) =>
      LET row == rows[r]
          Blank(x) == IF IsNull(x) THEN Some(<<>>) ELSE x
      IN  /\ ~IsNull(row.search_vector)
          /\ IF row.tbl = "wc_events"
             THEN row.search_vector =
                    Some(EventTextDerive(Blank(row.title), Blank(row.description)))
             ELSE row.search_vector = Some(to_tsvector(Blank(row.name)[1]))

\* C9 witness: a venue inserted with a NULL name has the empty vector, and so
\* has an event updated to a NULL title and description.
C9_Witness ==
  \E r \in DOMAIN rows :
    /\ TextTriggerFired(r)
    /\ \/ IsVenue(r) /\ last.op = "insert" /\ IsNull(rows[r].name)
       \/ IsEvent(r) /\ last.op = "update" /\ IsNull(rows[r].title)
          /\ IsNull(rows[r].description)
    /\ rows[r].search_vector = Some({})

\* C10 (as claimed): an update that names source columns and assigns every
\* named column the value it already holds leaves search_vector and location
\* as they were before the update.
C10_Idempotent ==
  [][\A r \in DOMAIN rows :
       (/\ r \in DOMAIN rows' /\ last'.op = "update" /\ last'.id = r
        /\ last'.cols \cap {"title", "description", "name", "lat", "lon"} # {}
        /\ \A c \in last'.cols : rows'[r][c] = rows[r][c])
       => /\ rows'[r].search_vector = rows[r].search_vector
          /\ rows[r].tbl = "wc_venues" => rows'[r].location = rows[r].location]_vars

\* A search response is in hand, and whether only one filter was given.
Searched == qry.status # "none"

OnlyGeo(f) == ~IsNull(f.geo) /\ IsNull(f.date) /\ IsNull(f.q) /\ IsNull(f.price)

OnlyText(f) == ~IsNull(f.q) /\ IsNull(f.date) /\ IsNull(f.geo) /\ IsNull(f.price)

C12_DistanceSortRejected ==
  (Searched /\ qry.sort = "distance" /\ IsNull(qry.filters.geo)) =>
    qry.status = "InvalidSortRequest"

\* C13 (as claimed): with sort "relevance" the results are ordered by
\* descending text-match score (then start time) when a text query is
\* given, and by descending start time only without a text query.
C13_RelevanceByScore ==
  (Searched /\ qry.sort = "relevance") =>
    IF ~IsNull(qry.filters.q)
    THEN qry.orderBy = "ts_rank DESC, e.start_at DESC"
    ELSE qry.orderBy = "e.start_at DESC"

\* Every order the four clauses can be applied in.
ClauseOrders ==
  {o \in [1..Len(WhereOrder) -> {WhereOrder[i] : i \in 1..Len(WhereOrder)}] :
     \A i, j \in 1..Len(WhereOrder) : o[i] = o[j] => i = j}

C15_EventOrVenueMatch ==
  (Searched /\ OnlyText(qry.filters)) =>
    \A e \in wc_events :
      e \in qry.events <=>
        \/ TsMatch(rows[e].search_vector, qry.filters.q[1])
        \/ /\ ~IsNull(rows[e].venue_id)
           /\ rows[e].venue_id[1] \in DOMAIN rows
           /\ TsMatch(rows[rows[e].venue_id[1]].search_vector, qry.filters.q[1])

\* C15 witness: an event whose title does not match is returned because the
\* name of its venue matches.
C15_Witness ==
  /\ Searched /\ OnlyText(qry.filters)
  /\ SearchEvent \in qry.events
  /\ ~TextHas(rows[SearchEvent].title, qry.filters.q[1])
  /\ TextHas(VenueOf(SearchEvent).name, qry.filters.q[1])

\* C19: longitude first, latitude second at the stored point and at the
\* centre of a radius search: an event whose venue was stored from (lat, lon)
\* is returned by a geo-only search centred at the same (lat, lon) for every
\* radius, with distance 0.
C19_StoredPointAtCenter ==
  (Searched /\ OnlyGeo(qry.filters)) =>
    \A e \in wc_events :
      (/\ VenueOf(e).lat = Some(qry.filters.geo[1].lat)
       /\ VenueOf(e).lon = Some(qry.filters.geo[1].lon))
      => /\ e \in qry.events
         /\ qry.distance[e] = Some(0)

\* C19 witness: a search of radius 0 centred at the coordinates of the
\* event's venue returned the event.
C19_Witness ==
  /\ Searched /\ OnlyGeo(qry.filters)
  /\ qry.filters.geo[1].radius = 0
  /\ SearchEvent \in qry.events
  /\ VenueOf(SearchEvent).lat = Some(qry.filters.geo[1].lat)
  /\ VenueOf(SearchEvent).lon = Some(qry.filters.geo[1].lon)
  /\ qry.filters.geo[1].lat.fine

\* C18: an UPDATE whose SET list names none of a derived column's source
\* columns does not recompute that column: the column keeps its value, or,
\* when the SET list names the column itself, holds the assigned value.  So an event update
\* without title and description keeps search_vector, a venue update of
\* name alone keeps location, and a venue update of lat and/or lon alone
\* keeps the venue's search_vector.
C18_NoRecompute ==
  [][\A r \in DOMAIN rows :
       (r \in DOMAIN rows' /\ last'.op = "update" /\ last'.id = r) =>
         /\ (rows[r].tbl = "wc_events" /\ last'.cols \cap {"title", "description"} = {})
              => IF "search_vector" \in last'.cols
                 THEN rows'[r].search_vector \in DirectVectors
                 ELSE rows'[r].search_vector = rows[r].search_vector
         /\ (rows[r].tbl = "wc_venues" /\ "name" \notin last'.cols)
              => IF "search_vector" \in last'.cols
                 THEN rows'[r].search_vector \in DirectVectors
                 ELSE rows'[r].search_vector = rows[r].search_vector
         /\ (rows[r].tbl = "wc_venues" /\ last'.cols \cap {"lat", "lon"} = {})
              => IF "location" \in last'.cols
                 THEN rows'[r].location \in DirectPoints
                 ELSE rows'[r].location = rows[r].location]_vars

\* C18 witness: a venue whose location does not derive from its lat and lon
\* (a client assigned it) was updated by a SET list naming name alone.
C18_Witness ==
  \E r \in DOMAIN rows :
    /\ IsVenue(r) /\ last.op = "update" /\ last.id = r /\ last.cols = {"name"}
    /\ ~IsNull(rows[r].location)
    /\ rows[r].location # PointOf(rows[r].lat, rows[r].lon)

\* C20: backfill and trigger agree.  The value a backfill UPDATE wrote into
\* search_vector or location of a row is the value the row's trigger
\* computes from the same source fields, and a venue the location backfill
\* left with a NULL location is one the trigger gives a NULL location.
C20_BackfillAgreesWithTrigger ==
  \A r \in DOMAIN rows :
    LET fired == BeforeRowTriggers("insert", {}, rows[r], rows[r])
    IN  /\ (last.op = "backfill" /\ last.id = r) =>
             \A c \in last.cols : rows[r][c] = fired[c]
        /\ (last.op = "backfill" /\ last.cols = {"location"} /\ IsVenue(r)
              /\ IsNull(rows[r].location)) =>
             IsNull(fired.location)

\* C20 witness: the location backfill wrote the point of a venue whose
\* latitude has digits beyond the 15th.
C20_Witness ==
  \E r \in DOMAIN rows :
    /\ last.op = "backfill" /\ last.id = r /\ last.cols = {"location"}
    /\ rows[r].lat[1].fine
    /\ ~IsNull(rows[r].location)

\* Membership in a sequence of printed messages.
Printed(m) == \E i \in 1..Len(proc.out) : proc.out[i] = m

\* C16: a run of migrate.js whose command is none of dev, deploy, reset,
\* status, resolve has ended with exit code 1 without starting the prisma
\* subprocess; the subprocess is started only for one of these commands.
C16_InvalidCommandRejected ==
  (proc.pc # "none" /\ proc.script = "migrate") =>
    IF proc.command \in {"dev", "deploy", "reset", "status", "resolve"}
    THEN proc.spawned = 1 /\ proc.child[4] = <<proc.command>>
    ELSE proc.pc = "exited" /\ proc.exitCode = 1 /\ proc.spawned = 0
         /\ proc.child = <<>>

\* C16 witness: migrate.js was run with the command "bogus" and has exited.
C16_Witness ==
  /\ proc.pc = "exited" /\ proc.script = "migrate"
  /\ proc.command = "bogus" /\ Printed("Invalid command")

\* C17: in a run of either script the prisma subprocess is started at most
\* once; the success message is printed only when the subprocess has
\* returned with status 0; when it failed, the run has printed the failure
\* message and not the success message, and has exit code 1.
C17_OneSubprocessNoFalseSuccess ==
  proc.pc # "none" =>
    /\ proc.spawned <= 1
    /\ (\E i \in 1..Len(SuccessMessages(proc.script)) :
          Printed(SuccessMessages(proc.script)[i]))
         => proc.status = Some(0)
    /\ (~IsNull(proc.status) /\ proc.status # Some(0))
         => /\ proc.pc = "exited" /\ proc.exitCode = 1
            /\ Printed(FailureMessage(proc.script))
            /\ ~Printed(SuccessMessages(proc.script)[1])
    /\ proc.status = Some(0) => proc.exitCode = 0

\* C17 witness: a run of client.js whose subprocess failed has exited.
C17_Witness ==
  /\ proc.pc = "exited" /\ proc.script = "client"
  /\ proc.status = Some(1) /\ proc.exitCode = 1

\* The derived columns of a row are what its triggers compute from its
\* source columns.
RowDerived(row) == row = BeforeRowTriggers("insert", {}, row, row)

\* C21 (as claimed): once the statements of the text-search migration and
\* of the PostGIS migration have been applied, whatever rows and whatever
\* values in a derived column that was there before they found, every row
\* has location = derive(lat, lon) and search_vector = derive(source text).
C21_MigratedRowsDerived ==
  [][(~(Installed \subseteq schema) /\ Installed \subseteq schema')
       => \A r \in DOMAIN rows' : RowDerived(rows'[r])]_vars

\* C22 (as claimed): a run of the text-search migration on a database that
\* an earlier run has been applied to ends with the columns, indexes,
\* functions, triggers and every search_vector as it found them, whatever
\* was written between the runs.
C22_SecondRunNoOp ==
  [][(/\ mig.status = "running" /\ mig.script = "text_search"
      /\ mig'.status = "done"
      /\ TextSearchObjects \subseteq mig.saved.schema)
       => (rows' = mig.saved.rows /\ schema' = mig.saved.schema)]_vars

\* C23 (as claimed): a run of the PostGIS migration script ends successfully
\* after its last statement, with the geography column, the spatial index
\* and the trigger installed on wc_venues.
C23_PostgisScriptSucceeds ==
  (mig.status \in {"done", "failed"} /\ mig.script = "postgis") =>
    /\ mig.status = "done"
    /\ {"column wc_venues.location", "index idx_wc_venues_location",
        "trigger trigger_update_venue_location"} \subseteq schema

\* C24 (as claimed): requiring index.js starts no prisma subprocess and
\* cannot end the host process.
C24_RequireNoSideEffect ==
  (proc.pc # "none" /\ proc.entry = "index.js") =>
    /\ proc.spawned = 0
    /\ proc.exitCode = 0

\* C25 (as claimed): migrate.js takes the command dev when no argument is
\* given, and the prisma subprocess gets every further argument unchanged
\* and in order after the --schema option.
C25_ArgsForwarded ==
  (proc.pc # "none" /\ proc.script = "migrate") =>
    /\ proc.argv = <<>> => proc.command = "dev"
    /\ proc.spawned = 1 =>
         proc.child = <<<<"npx">>, <<"prisma">>, <<"migrate">>, <<proc.command>>,
                        <<"--schema=schemaPath">>>> \o proc.args

\* The columns the schema declares ON DELETE SET NULL.
SetNullColumns ==
  { <<"group_activities", "userId">>, <<"group_invites", "usedBy">>,
    <<"event_proposals", "cachedEventId">> }

\* C26: referential integrity.  After every insert or delete, every non-NULL
\* id-valued column holds the id of an existing row; a row that referenced a
\* deleted row is deleted with it, except that through group_activities.userId,
\* group_invites.usedBy and event_proposals.cachedEventId it is kept, if
\* nothing else deletes it, with the column set to NULL.
C26_ReferentialIntegrity ==
  [][/\ \A x \in DOMAIN rows' : \A c \in DOMAIN rows'[x].ref :
          rows'[x].ref[c] # NULL => rows'[x].ref[c][1] \in DOMAIN rows'
     /\ \A d \in DOMAIN rows \ DOMAIN rows' :
          \A x \in DOMAIN rows : \A c \in DOMAIN rows[x].ref :
            rows[x].ref[c] = Some(d) =>
              IF <<rows[x].tbl, c>> \in SetNullColumns
              THEN x \in DOMAIN rows' => rows'[x].ref[c] = NULL
              ELSE x \notin DOMAIN rows']_vars

\* A user was deleted and the activity that named them is still there, its
\* userId NULL, in a group another user created.
C26_Witness ==
  /\ last = [op |-> "delete", id |-> "user1", cols |-> {}]
  /\ "activity1" \in DOMAIN rows
  /\ rows["activity1"].ref["userId"] = NULL
  /\ "group1" \in DOMAIN rows
  /\ rows["group1"].ref["createdBy"] = Some("user2")

====
